---- MODULE Spec2Model ----
(***************************************************************************)
(* CallScript V2 pipeline: the core.calls table used as a work queue by    *)
(* the vault, factory and judge lanes, with the stale-lock sweep.          *)
(***************************************************************************)
EXTENDS Integers, Sequences, FiniteSets, TLC

\* ---------------------------------------------------------------- bounds
NumCalls == 1
NumVault == 2
NumFactory == 2
NumJudge == 2
NumRacers == 5
NumVaultCalls == 2
NumFactoryCalls == 1
NumJudgeCalls == 2
TtlTicks == 1
NumCallers == 2
NumThreads == 3
MaxNow == 4
MaxCount == 4
failure_threshold == 2
recovery_timeout == 2
MaxTime == 6
MaxChunkHours == 2
MaxNegativeHours == 1
UnitsPerHour == 2
NumIngestCalls == 1
NumChunks == 3
MaxWords == 3
MaxOverlapWords == 2
MaxTotalWords == 5
MaxSegs == 2
ChunkUnits == 2
OverlapUnits == 1
MaxBatch == 2
NumSweepCalls == 2
NumSegments == 2
MaxSegTime == 1
MaxTokens == 2

\* ------------------------------------------------------ program constants
MaxAttempts == 3
VAULT_BATCH_SIZE == 10
PERMANENT_FAILURE_CODES == {401, 403, 404, 410}
JUDGE_BATCH_SIZE == 10
success_threshold == 2

Calls == 1..NumCalls
StatusValues == {"pending", "downloaded", "processing", "transcribed",
                 "flagged", "safe", "failed", "skipped"}
NoCall == [id |-> 0, retry_count |-> 0]

VARIABLES
    status,            \* core.calls.status
    retry_count,       \* core.calls.retry_count
    storage_path,      \* core.calls.storage_path: "null", "path" or "vault_lock"
    qa_flags,          \* core.calls.qa_flags: "null", "locked", "result", "skipped", "error"
    processing_error,  \* core.calls.processing_error: "null" or the lane that wrote it
    audio_url,         \* core.calls.audio_url IS NOT NULL
    age,               \* ticks elapsed since core.calls.updated_at, saturating at TtlTicks + 1
    vpc, vbatch,       \* vault worker: loop position, calls of the batch still to process
    fpc, fcall,        \* factory worker: loop position, the dict returned by the fetch
    jpc, jcand, jlocked, jtodo, \* judge worker: loop position, candidates, locked_calls, unprocessed
    hist               \* per call: what has happened to it (observation only)

row == <<status, retry_count, storage_path, qa_flags, processing_error, audio_url, age>>
vaultVars == <<vpc, vbatch>>
factoryVars == <<fpc, fcall>>
judgeVars == <<jpc, jcand, jlocked, jtodo>>

VARIABLES
    cb_state,          \* CircuitStats.state: "closed", "open", "half_open"
    cb_failures,       \* CircuitStats.failures
    cb_successes,      \* CircuitStats.successes
    cb_open_until,     \* CircuitStats.open_until
    now,               \* time.time(), in ticks
    tpc,               \* caller of CircuitBreaker.call: "idle", "admitted", "running", "rejected"
    cb_streak,         \* failures recorded in a row since Closed with zero failures (observation only)
    cb_last,           \* the last outcome recorded and the stats it met (observation only)
    cb_run,            \* failures recorded since the last recorded success (observation only)
    admitted_in,       \* per caller: the state its call was admitted in (observation only)
    circuits,          \* _circuits[name]: 0 when the name is absent, else the instance stored
    created,           \* number of CircuitBreaker instances constructed so far
    gpc, gret          \* caller of get_circuit: position, and the instance returned

breakerVars == <<cb_state, cb_failures, cb_successes, cb_open_until, now, tpc, cb_streak, cb_last,
                 cb_run, admitted_in>>
registryVars == <<circuits, created, gpc, gret>>

VARIABLES
    start_time, end_time, \* run_backfill arguments, in time units since some origin
    chunk_hours, lifo,    \* run_backfill arguments
    chunks,               \* the list of (chunk_start, chunk_end) windows
    bpc,                  \* run_backfill position: "build", "loop", "done"
    chunk_num,            \* index of the next window of the for loop
    total_fetched, total_inserted,
    slept,                \* the last iteration of the for loop reached time.sleep(1)
    attempted,            \* windows handed to fetch_ringba_calls, in order (observation only)
    raised                \* indexes of the windows whose try block raised (observation only)

backfillVars == <<start_time, end_time, chunk_hours, lifo, chunks, bpc, chunk_num,
                  total_fetched, total_inserted, slept, attempted, raised>>

VARIABLES
    transcripts,          \* _merge_chunk_transcripts argument: one word list per chunk
    merged_text,          \* its return value, as a word list
    mpc,                  \* "call" before the merge, "done" after
    all_segments,         \* _merge_diarization_segments argument: one segment list per chunk
    chunk_offsets,        \* _merge_diarization_segments argument
    merged_segments,      \* its return value
    dpc,                  \* "call" before the merge, "done" after
    transcript_text,      \* align_transcript_with_speakers argument, as whitespace-split tokens
    diarization_segments, \* align_transcript_with_speakers argument
    aligned_segments,     \* its return value
    apc                   \* "call" before the alignment, "done" after

mediaVars == <<transcripts, merged_text, mpc, all_segments, chunk_offsets, merged_segments, dpc,
               transcript_text, diarization_segments, aligned_segments, apc>>

VARIABLES
    shutdown_requested,   \* the worker module's global flag, per lane
    lpc,                  \* where the lane's main() is: "loop", "fetch", "batch", "sleep", "exited"
    in_flight,            \* calls of the current batch whose processing has not returned yet
    late_batches          \* history: batches accepted after the signal handler ran

loopVars == <<shutdown_requested, lpc, in_flight, late_batches>>
otherVars == <<breakerVars, registryVars, backfillVars, mediaVars, loopVars>>

vars == <<status, retry_count, storage_path, qa_flags, processing_error, audio_url, age,
          vpc, vbatch, fpc, fcall, jpc, jcand, jlocked, jtodo, hist, otherVars>>

Rows == DOMAIN status
VaultWorkers == DOMAIN vpc
FactoryWorkers == DOMAIN fpc
JudgeWorkers == DOMAIN jpc

NoHist == [claims |-> 0, failures |-> 0, succeeded |-> FALSE, crashed |-> FALSE,
           reaped |-> FALSE, dead |-> FALSE, qaclaims |-> 0, upserted_in |-> "never"]

Bump(c, field) == [hist EXCEPT ![c][field] = @ + 1]

\* start_time_utc increases with the call id; ORDER BY start_time_utc DESC LIMIT n
RECURSIVE NewestFirst(_)
NewestFirst(S) ==
    IF S = {} THEN <<>>
    ELSE LET m == CHOOSE x \in S : \A y \in S : y <= x
         IN <<m>> \o NewestFirst(S \ {m})

Limit(seq, n) == IF Len(seq) <= n THEN seq ELSE SubSeq(seq, 1, n)

SeqToSet(seq) == {seq[i] : i \in 1..Len(seq)}

\* -------------------------------------------------------------- vault lane

\* VaultRepository.fetch_pending_calls: the rows the query matches
VaultSelector(c) == status[c] = "pending" /\ audio_url[c]

fetch_pending_calls(limit) == Limit(NewestFirst({c \in Rows : VaultSelector(c)}), limit)

\* main loop: fetch a batch; an empty batch sleeps and polls again
VaultFetch(w) ==
    /\ vpc[w] = "poll"
    /\ fetch_pending_calls(VAULT_BATCH_SIZE) # <<>>
    /\ vbatch' = [vbatch EXCEPT ![w] = SeqToSet(fetch_pending_calls(VAULT_BATCH_SIZE))]
    /\ vpc' = [vpc EXCEPT ![w] = "batch"]
    /\ UNCHANGED <<row, factoryVars, judgeVars, hist>>
    /\ UNCHANGED otherVars

\* VaultRepository.mark_downloaded: unconditional UPDATE ... WHERE id = call_id
mark_downloaded(c) ==
    /\ status' = [status EXCEPT ![c] = "downloaded"]
    /\ storage_path' = [storage_path EXCEPT ![c] = "path"]
    /\ processing_error' = [processing_error EXCEPT ![c] = "null"]
    /\ age' = [age EXCEPT ![c] = 0]

\* VaultRepository.mark_failed: unconditional UPDATE ... WHERE id = call_id
vault_mark_failed(c) ==
    /\ status' = [status EXCEPT ![c] = "failed"]
    /\ processing_error' = [processing_error EXCEPT ![c] = "vault"]
    /\ age' = [age EXCEPT ![c] = 0]
    /\ UNCHANGED storage_path

VaultDone(w, c) ==
    /\ vbatch' = [vbatch EXCEPT ![w] = @ \ {c}]
    /\ vpc' = [vpc EXCEPT ![w] = IF vbatch[w] = {c} THEN "poll" ELSE "batch"]

\* the outcomes of download_audio: "ok", "empty" (0 bytes), "timeout" (requests.Timeout
\* or another RequestException) and the HTTPError raise_for_status raises for a status
\* of 400 and above
HttpErrors == {"http_401", "http_403", "http_404", "http_410", "http_500"}
VaultOutcomes == {"ok", "empty", "timeout"} \cup HttpErrors

http_status(outcome) ==
    CASE outcome = "http_401" -> 401
      [] outcome = "http_403" -> 403
      [] outcome = "http_404" -> 404
      [] outcome = "http_410" -> 410
      [] outcome = "http_500" -> 500

\* bool(e.response): requests.Response.__bool__ returns Response.ok, which is False
\* for every status of 400 and above
response_truthy(code) == code < 400

\* status_code = e.response.status_code if e.response else 0
status_code(outcome) ==
    IF response_truthy(http_status(outcome)) THEN http_status(outcome) ELSE 0

\* process_single_call, one thread of process_batch
process_single_call(w, c, outcome) ==
    /\ vpc[w] = "batch"
    /\ c \in vbatch[w]
    /\ CASE outcome = "ok" -> mark_downloaded(c)
         [] outcome = "empty" -> vault_mark_failed(c)
         [] outcome \in HttpErrors /\ status_code(outcome) \in PERMANENT_FAILURE_CODES ->
                vault_mark_failed(c)
         [] OTHER -> UNCHANGED <<status, storage_path, processing_error, age>>
    /\ VaultDone(w, c)
    /\ UNCHANGED <<retry_count, qa_flags, audio_url, factoryVars, judgeVars, hist>>
    /\ UNCHANGED otherVars

VaultStep ==
    \E w \in VaultWorkers :
        \/ VaultFetch(w)
        \/ \E c \in Rows, outcome \in VaultOutcomes :
               process_single_call(w, c, outcome)

\* -------------------------------------------------------------- judge lane

\* JudgeRepository.fetch_and_lock_batch step 1: the rows the query matches
JudgeSelector(c) == status[c] = "transcribed" /\ qa_flags[c] = "null"

JudgeCandidates(limit) == Limit(NewestFirst({c \in Rows : JudgeSelector(c)}), limit)

\* fetch_and_lock_batch step 1; no candidate returns [] and the loop sleeps
JudgeFetch(w) ==
    /\ jpc[w] = "poll"
    /\ JudgeCandidates(JUDGE_BATCH_SIZE) # <<>>
    /\ jcand' = [jcand EXCEPT ![w] = JudgeCandidates(JUDGE_BATCH_SIZE)]
    /\ jlocked' = [jlocked EXCEPT ![w] = {}]
    /\ jpc' = [jpc EXCEPT ![w] = "locking"]
    /\ UNCHANGED <<row, vaultVars, factoryVars, jtodo, hist>>
    /\ UNCHANGED otherVars

judge_lock_where_status_only(c) == status[c] = "transcribed"

\* fetch_and_lock_batch step 2: WHERE id = call_id AND status = 'transcribed' AND qa_flags IS NULL
judge_lock_where(c) == status[c] = "transcribed" /\ qa_flags[c] = "null"

\* fetch_and_lock_batch step 2, one candidate: the conditional UPDATE and its result;
\* after the last candidate the locked list is returned to main
JudgeLock(w) ==
    /\ jpc[w] = "locking"
    /\ LET c == Head(jcand[w])
           got == judge_lock_where(c)
           locked == IF got THEN jlocked[w] \cup {c} ELSE jlocked[w]
           last == Len(jcand[w]) = 1
       IN /\ IF got
             THEN /\ qa_flags' = [qa_flags EXCEPT ![c] = "locked"]
                  /\ age' = [age EXCEPT ![c] = 0]
                  /\ hist' = [hist EXCEPT ![c].qaclaims = IF @ < 2 THEN @ + 1 ELSE @]
             ELSE UNCHANGED <<qa_flags, age, hist>>
          /\ jcand' = [jcand EXCEPT ![w] = Tail(@)]
          /\ jlocked' = [jlocked EXCEPT ![w] = locked]
          /\ jtodo' = [jtodo EXCEPT ![w] = IF last THEN locked ELSE @]
          /\ jpc' = [jpc EXCEPT ![w] =
                        IF ~last THEN "locking" ELSE IF locked = {} THEN "poll" ELSE "batch"]
    /\ UNCHANGED <<status, retry_count, storage_path, processing_error, audio_url,
                   vaultVars, factoryVars>>
    /\ UNCHANGED otherVars

\* fetch_and_lock_batch step 2: the lock request of one candidate raises; the method
\* re-raises, its locked_calls list is lost, and main logs the error and polls again
JudgeLockRaises(w) ==
    /\ jpc[w] = "locking"
    /\ jpc' = [jpc EXCEPT ![w] = "poll"]
    /\ jcand' = [jcand EXCEPT ![w] = <<>>]
    /\ jlocked' = [jlocked EXCEPT ![w] = {}]
    /\ UNCHANGED <<row, vaultVars, factoryVars, jtodo, hist>>
    /\ UNCHANGED otherVars

\* JudgeRepository.save_qa_results: unconditional UPDATE ... WHERE id = call_id
save_qa_results(c, new_status) ==
    /\ status' = [status EXCEPT ![c] = new_status]
    /\ qa_flags' = [qa_flags EXCEPT ![c] = "result"]
    /\ processing_error' = [processing_error EXCEPT ![c] = "null"]
    /\ age' = [age EXCEPT ![c] = 0]

\* JudgeRepository.mark_skipped: unconditional UPDATE ... WHERE id = call_id
mark_skipped(c) ==
    /\ status' = [status EXCEPT ![c] = "safe"]
    /\ qa_flags' = [qa_flags EXCEPT ![c] = "skipped"]
    /\ age' = [age EXCEPT ![c] = 0]
    /\ UNCHANGED processing_error

\* JudgeRepository.mark_failed: unconditional UPDATE ... WHERE id = call_id
judge_mark_failed(c) ==
    /\ status' = [status EXCEPT ![c] = "failed"]
    /\ qa_flags' = [qa_flags EXCEPT ![c] = "error"]
    /\ processing_error' = [processing_error EXCEPT ![c] = "judge"]
    /\ age' = [age EXCEPT ![c] = 0]

\* judge process_single_call, one thread of process_batch; outcome:
\* "short" transcript, analysis "flagged" or "safe", or "error"
judge_process_single_call(w, c, outcome) ==
    /\ jpc[w] = "batch"
    /\ c \in jtodo[w]
    /\ CASE outcome = "short" -> mark_skipped(c)
         [] outcome \in {"flagged", "safe"} -> save_qa_results(c, outcome)
         [] OTHER -> judge_mark_failed(c)
    /\ jtodo' = [jtodo EXCEPT ![w] = @ \ {c}]
    /\ jpc' = [jpc EXCEPT ![w] = IF jtodo[w] = {c} THEN "poll" ELSE "batch"]
    /\ UNCHANGED <<retry_count, storage_path, audio_url, vaultVars, factoryVars,
                   jcand, jlocked, hist>>
    /\ UNCHANGED otherVars

\* the judge process is killed; a new process starts polling
JudgeCrash(w) ==
    /\ jpc[w] \in {"locking", "batch"}
    /\ jpc' = [jpc EXCEPT ![w] = "poll"]
    /\ jcand' = [jcand EXCEPT ![w] = <<>>]
    /\ jlocked' = [jlocked EXCEPT ![w] = {}]
    /\ jtodo' = [jtodo EXCEPT ![w] = {}]
    /\ UNCHANGED <<row, vaultVars, factoryVars, hist>>
    /\ UNCHANGED otherVars

JudgeStep ==
    \E w \in JudgeWorkers :
        \/ JudgeFetch(w)
        \/ JudgeLock(w)
        \/ JudgeLockRaises(w)
        \/ \E c \in Rows, outcome \in {"short", "flagged", "safe", "error"} :
               judge_process_single_call(w, c, outcome)
        \/ JudgeCrash(w)

\* the steps of a judge worker whose process is never killed
JudgeRun ==
    \E w \in JudgeWorkers :
        \/ JudgeFetch(w)
        \/ JudgeLock(w)
        \/ JudgeLockRaises(w)
        \/ \E c \in Rows, outcome \in {"short", "flagged", "safe", "error"} :
               judge_process_single_call(w, c, outcome)

\* ------------------------------------------- scripts/test_vault_locking.py

attempt_lock_where_status_only(c) == status[c] = "pending"

\* attempt_lock: WHERE id = call_id AND status = 'pending' AND storage_path IS NULL
attempt_lock_where(c) == status[c] = "pending" /\ storage_path[c] = "null"

\* attempt_lock run by one thread of test_concurrent_lock; the thread's result is
\* kept in vpc: "won" for (worker_id, True), "lost" for (worker_id, False)
attempt_lock(w) ==
    /\ vpc[w] = "attempt"
    /\ \E c \in vbatch[w] :
          IF attempt_lock_where(c)
          THEN /\ storage_path' = [storage_path EXCEPT ![c] = "vault_lock"]
               /\ age' = [age EXCEPT ![c] = 0]
               /\ vpc' = [vpc EXCEPT ![w] = "won"]
          ELSE /\ vpc' = [vpc EXCEPT ![w] = "lost"]
               /\ UNCHANGED <<storage_path, age>>
    /\ UNCHANGED <<status, retry_count, qa_flags, processing_error, audio_url,
                   vbatch, factoryVars, judgeVars, hist>>
    /\ UNCHANGED otherVars

\* ------------------------------------------------------------ factory lane

\* CallsRepository.fetch_next_pending_call: the rows the query matches
FactorySelector(c) == status[c] = "downloaded" /\ retry_count[c] < 3

fetch_next_pending_call ==
    LET hits == Limit(NewestFirst({c \in Rows : FactorySelector(c)}), 1)
    IN IF hits = <<>> THEN NoCall
       ELSE [id |-> hits[1], retry_count |-> retry_count[hits[1]]]

\* main loop: fetch; an empty queue sleeps and polls again
FactoryFetch(w) ==
    /\ fpc[w] = "poll"
    /\ fetch_next_pending_call # NoCall
    /\ fcall' = [fcall EXCEPT ![w] = fetch_next_pending_call]
    /\ fpc' = [fpc EXCEPT ![w] = "fetched"]
    /\ UNCHANGED <<row, vaultVars, judgeVars, hist>>
    /\ UNCHANGED otherVars

lock_call_where_any(c) == TRUE

\* CallsRepository.lock_call: WHERE id = call_id AND status = 'downloaded'
lock_call_where(c) == status[c] = "downloaded"

\* CallsRepository.lock_call: SET status, retry_count, updated_at
lock_call(c, current_retry_count) ==
    /\ status' = [status EXCEPT ![c] = "processing"]
    /\ retry_count' = [retry_count EXCEPT ![c] = current_retry_count + 1]
    /\ age' = [age EXCEPT ![c] = 0]

\* process_call step 1: lock, or return False when the lock is not obtained
FactoryLock(w) ==
    /\ fpc[w] = "fetched"
    /\ LET c == fcall[w].id
       IN IF lock_call_where(c)
          THEN /\ lock_call(c, fcall[w].retry_count)
               /\ fpc' = [fpc EXCEPT ![w] = "locked"]
               /\ hist' = Bump(c, "claims")
               /\ UNCHANGED fcall
          ELSE /\ fpc' = [fpc EXCEPT ![w] = "poll"]
               /\ fcall' = [fcall EXCEPT ![w] = NoCall]
               /\ UNCHANGED <<status, retry_count, age, hist>>
    /\ UNCHANGED <<storage_path, qa_flags, processing_error, audio_url, vaultVars, judgeVars>>
    /\ UNCHANGED otherVars

\* CallsRepository.save_transcription: unconditional UPDATE ... WHERE id = call_id
save_transcription(c) ==
    /\ status' = [status EXCEPT ![c] = "transcribed"]
    /\ processing_error' = [processing_error EXCEPT ![c] = "null"]
    /\ age' = [age EXCEPT ![c] = 0]

\* process_call steps 2-6 all succeed
FactorySucceed(w) ==
    /\ fpc[w] = "locked"
    /\ LET c == fcall[w].id
       IN /\ save_transcription(c)
          /\ hist' = [hist EXCEPT ![c].succeeded = TRUE]
    /\ fpc' = [fpc EXCEPT ![w] = "poll"]
    /\ fcall' = [fcall EXCEPT ![w] = NoCall]
    /\ UNCHANGED <<retry_count, storage_path, qa_flags, audio_url, vaultVars, judgeVars>>
    /\ UNCHANGED otherVars

\* CallsRepository.mark_failed: dead letter at max_retries, else back to 'downloaded'
mark_failed(c, current_retry_count) ==
    /\ status' = [status EXCEPT ![c] =
                     IF current_retry_count >= MaxAttempts THEN "failed" ELSE "downloaded"]
    /\ processing_error' = [processing_error EXCEPT ![c] = "factory"]
    /\ age' = [age EXCEPT ![c] = 0]

\* process_call: an exception in steps 2-6 reaches the except block
FactoryFail(w) ==
    /\ fpc[w] = "locked"
    /\ LET c == fcall[w].id
       IN /\ mark_failed(c, fcall[w].retry_count + 1)
          /\ hist' = [hist EXCEPT ![c].failures = @ + 1,
                                  ![c].dead = @ \/ status'[c] = "failed"]
    /\ fpc' = [fpc EXCEPT ![w] = "poll"]
    /\ fcall' = [fcall EXCEPT ![w] = NoCall]
    /\ UNCHANGED <<retry_count, storage_path, qa_flags, audio_url, vaultVars, judgeVars>>
    /\ UNCHANGED otherVars

\* the worker process is killed while it holds a claim; a new process starts polling
FactoryCrash(w) ==
    /\ fpc[w] = "locked"
    /\ hist' = [hist EXCEPT ![fcall[w].id].crashed = TRUE]
    /\ fpc' = [fpc EXCEPT ![w] = "poll"]
    /\ fcall' = [fcall EXCEPT ![w] = NoCall]
    /\ UNCHANGED <<row, vaultVars, judgeVars>>
    /\ UNCHANGED otherVars

\* process_call step 1: lock_call re-raises a database error; the except block of
\* process_call then calls mark_failed, whose own database error is only logged
FactoryLockRaises(w) ==
    /\ fpc[w] = "fetched"
    /\ \E mark_failed_ok \in BOOLEAN :
          LET c == fcall[w].id
          IN IF mark_failed_ok
             THEN /\ mark_failed(c, fcall[w].retry_count + 1)
                  /\ hist' = [hist EXCEPT ![c].dead = @ \/ status'[c] = "failed"]
             ELSE UNCHANGED <<status, processing_error, age, hist>>
    /\ fpc' = [fpc EXCEPT ![w] = "poll"]
    /\ fcall' = [fcall EXCEPT ![w] = NoCall]
    /\ UNCHANGED <<retry_count, storage_path, qa_flags, audio_url, vaultVars, judgeVars>>
    /\ UNCHANGED otherVars

\* CallsRepository.release_call: WHERE id = call_id AND status = 'processing'
release_call_where(c) == status[c] = "processing"

\* CallsRepository.release_call: SET status, updated_at; True when a row was updated
release_call(c) ==
    IF release_call_where(c)
    THEN /\ status' = [status EXCEPT ![c] = "downloaded"]
         /\ age' = [age EXCEPT ![c] = 0]
    ELSE UNCHANGED <<status, age>>

\* a worker that holds a claim gives the call back with release_call; its position
\* records the value release_call returned
FactoryRelease(w) ==
    /\ fpc[w] = "locked"
    /\ LET c == fcall[w].id
       IN /\ release_call(c)
          /\ fpc' = [fpc EXCEPT ![w] = IF release_call_where(c) THEN "released"
                                                                ELSE "not_released"]
    /\ UNCHANGED <<retry_count, storage_path, qa_flags, processing_error, audio_url,
                   fcall, vaultVars, judgeVars, hist>>
    /\ UNCHANGED otherVars

\* after release_call the worker polls again
FactoryResume(w) ==
    /\ fpc[w] \in {"released", "not_released"}
    /\ fpc' = [fpc EXCEPT ![w] = "poll"]
    /\ fcall' = [fcall EXCEPT ![w] = NoCall]
    /\ UNCHANGED <<row, vaultVars, judgeVars, hist>>
    /\ UNCHANGED otherVars

\* ------------------------------------------------------- time and the sweep

Tick ==
    /\ \E c \in Rows : age[c] <= TtlTicks
    /\ age' = [c \in Rows |-> IF age[c] <= TtlTicks THEN age[c] + 1 ELSE age[c]]
    /\ UNCHANGED <<status, retry_count, storage_path, qa_flags, processing_error, audio_url,
                   vaultVars, factoryVars, judgeVars, hist>>
    /\ UNCHANGED otherVars

StaleAtAnyAge(c) == status[c] = "processing"

Stale(c) == status[c] = "processing" /\ age[c] > TtlTicks

\* core_zombie_killer: one bulk UPDATE of every stale 'processing' row
ZombieReaper ==
    /\ \E c \in Rows : Stale(c)
    /\ status' = [c \in Rows |-> IF Stale(c) THEN "downloaded" ELSE status[c]]
    /\ age' = [c \in Rows |-> IF Stale(c) THEN 0 ELSE age[c]]
    /\ hist' = [c \in Rows |-> IF Stale(c) THEN [hist[c] EXCEPT !.reaped = TRUE] ELSE hist[c]]
    /\ UNCHANGED <<retry_count, storage_path, qa_flags, processing_error, audio_url,
                   vaultVars, factoryVars, judgeVars>>
    /\ UNCHANGED otherVars

\* -------------------------------------------------------- specifications

\* -------------------------------------------------------------- ingest lane

\* map_ringba_to_call: the fields of a mapped record that the model tracks
MappedCalls == [status : {"pending", "skipped"}, audio_url : BOOLEAN]

update_data_whole_record(force_update, call) ==
    {"status", "audio_url", "duration_seconds", "revenue", "updated_at"}

\* upsert_calls: the columns of update_data for a call that already exists
update_data(force_update, call) ==
    IF force_update
    THEN {"audio_url", "duration_seconds", "revenue", "payout", "publisher_id",
          "publisher_sub_id", "publisher_name", "buyer_name", "target_id", "target_name",
          "caller_state", "caller_city", "end_call_source", "call_status",
          "connected_duration", "time_to_answer", "is_converted",
          "target_response_status", "raw_payload", "updated_at"}
    ELSE (IF call.audio_url THEN {"audio_url"} ELSE {})
             \cup {"duration_seconds", "revenue", "updated_at"}

\* the value a column holds after an UPDATE that sets the columns of cols
Written(col, cols, new, old) == IF col \in cols THEN new ELSE old

\* upsert_calls for a record whose ringba_call_id exists: UPDATE ... WHERE ringba_call_id
upsert_calls(c, force_update, call) ==
    LET cols == update_data(force_update, call) IN
    /\ c \in Rows
    /\ status' = [status EXCEPT ![c] = Written("status", cols, call.status, @)]
    /\ retry_count' = [retry_count EXCEPT ![c] = Written("retry_count", cols, 0, @)]
    /\ storage_path' = [storage_path EXCEPT ![c] = Written("storage_path", cols, "null", @)]
    /\ qa_flags' = [qa_flags EXCEPT ![c] = Written("qa_flags", cols, "null", @)]
    /\ audio_url' = [audio_url EXCEPT ![c] = Written("audio_url", cols, call.audio_url, @)]
    /\ age' = [age EXCEPT ![c] = Written("updated_at", cols, 0, @)]
    /\ hist' = [hist EXCEPT ![c].upserted_in = status[c]]
    /\ UNCHANGED <<processing_error, vaultVars, factoryVars, judgeVars>>
    /\ UNCHANGED otherVars

IngestStep ==
    \E c \in Rows, force_update \in BOOLEAN, call \in MappedCalls :
        upsert_calls(c, force_update, call)

\* --------------------------------------------------------- circuit breaker

pipelineVars == <<row, vaultVars, factoryVars, judgeVars, hist>>
notBreakerVars == <<registryVars, backfillVars, mediaVars, loopVars, pipelineVars>>
notRegistryVars == <<breakerVars, backfillVars, mediaVars, loopVars, pipelineVars>>
notBackfillVars == <<breakerVars, registryVars, mediaVars, loopVars, pipelineVars>>
notMediaVars == <<breakerVars, registryVars, backfillVars, loopVars, pipelineVars>>
notLoopVars == <<breakerVars, registryVars, backfillVars, mediaVars, pipelineVars>>

Callers == DOMAIN tpc

NoOutcome == [event |-> "none", state |-> "closed", successes |-> 0]

recovery_elapsed_always == TRUE

\* _get_state_unlocked: time.time() >= self._stats.open_until
recovery_elapsed == now >= cb_open_until

\* _get_state_unlocked: the state it returns
get_state_unlocked ==
    IF cb_state = "open" /\ recovery_elapsed THEN "half_open" ELSE cb_state

\* _get_state_unlocked: what it stores (an Open breaker whose time has come goes Half-Open)
StoreState ==
    /\ cb_state' = get_state_unlocked
    /\ cb_successes' = IF cb_state = "open" /\ recovery_elapsed THEN 0 ELSE cb_successes

\* CircuitBreaker.call, the locked section: reject when Open, else admit the caller
CallEnter(t) ==
    /\ tpc[t] = "idle"
    /\ StoreState
    /\ tpc' = [tpc EXCEPT ![t] = IF get_state_unlocked = "open" THEN "rejected" ELSE "admitted"]
    /\ admitted_in' = [admitted_in EXCEPT
                          ![t] = IF get_state_unlocked = "open" THEN "none" ELSE get_state_unlocked]
    /\ UNCHANGED <<cb_failures, cb_open_until, now, cb_streak, cb_last, cb_run, notBreakerVars>>

\* CircuitOpenError reaches the caller
CallRejected(t) ==
    /\ tpc[t] = "rejected"
    /\ tpc' = [tpc EXCEPT ![t] = "idle"]
    /\ UNCHANGED <<cb_state, cb_failures, cb_successes, cb_open_until, now, cb_streak, cb_last,
                   cb_run, admitted_in, notBreakerVars>>

\* CircuitBreaker.call: func(*args, **kwargs) starts, outside the lock
Invoke(t) ==
    /\ tpc[t] = "admitted"
    /\ tpc' = [tpc EXCEPT ![t] = "running"]
    /\ UNCHANGED <<cb_state, cb_failures, cb_successes, cb_open_until, now, cb_streak, cb_last,
                   cb_run, admitted_in, notBreakerVars>>

record_success ==
    /\ cb_successes' = cb_successes + 1
    /\ IF cb_state = "half_open" /\ cb_successes + 1 >= success_threshold
       THEN cb_state' = "closed" /\ cb_failures' = 0
       ELSE UNCHANGED <<cb_state, cb_failures>>
    /\ UNCHANGED cb_open_until

\* the wrapped function returns
FuncReturns(t) ==
    /\ tpc[t] = "running"
    /\ cb_successes < MaxCount
    /\ record_success
    /\ tpc' = [tpc EXCEPT ![t] = "idle"]
    /\ cb_streak' = 0
    /\ cb_last' = [event |-> "success", state |-> cb_state, successes |-> cb_successes]
    /\ cb_run' = 0
    /\ admitted_in' = [admitted_in EXCEPT ![t] = "none"]
    /\ UNCHANGED <<now, notBreakerVars>>

open_circuit_keep_deadline ==
    /\ cb_state' = "open"
    /\ cb_open_until' = cb_open_until
    /\ cb_successes' = 0

open_circuit ==
    /\ cb_state' = "open"
    /\ cb_open_until' = now + recovery_timeout
    /\ cb_successes' = 0

threshold_exceeded(failures) == failures > failure_threshold

\* _record_failure: self._stats.failures >= self.failure_threshold
threshold_reached(failures) == failures >= failure_threshold

record_failure ==
    /\ cb_failures' = cb_failures + 1
    /\ IF cb_state = "half_open" THEN open_circuit
       ELSE IF cb_state = "closed" /\ threshold_reached(cb_failures + 1) THEN open_circuit
       ELSE UNCHANGED <<cb_state, cb_open_until, cb_successes>>

\* the wrapped function raises
FuncRaises(t) ==
    /\ tpc[t] = "running"
    /\ cb_failures < MaxCount
    /\ record_failure
    /\ tpc' = [tpc EXCEPT ![t] = "idle"]
    /\ cb_streak' = IF cb_state = "closed" /\ cb_failures = 0 THEN 1
                    ELSE IF cb_streak \in 1..failure_threshold THEN cb_streak + 1
                    ELSE cb_streak
    /\ cb_last' = [event |-> "failure", state |-> cb_state, successes |-> cb_successes]
    /\ cb_run' = IF cb_run < failure_threshold THEN cb_run + 1 ELSE cb_run
    /\ admitted_in' = [admitted_in EXCEPT ![t] = "none"]
    /\ UNCHANGED <<now, notBreakerVars>>

\* the state property and get_stats
StateQuery ==
    /\ StoreState
    /\ UNCHANGED <<cb_failures, cb_open_until, now, tpc, cb_streak, cb_last, cb_run, admitted_in,
                   notBreakerVars>>

\* CircuitBreaker.reset
reset ==
    /\ cb_state' = "closed"
    /\ cb_failures' = 0
    /\ cb_successes' = 0
    /\ cb_open_until' = 0
    /\ cb_streak' = 0
    /\ cb_last' = NoOutcome
    /\ cb_run' = 0
    /\ UNCHANGED <<now, tpc, admitted_in, notBreakerVars>>

\* time passes
Advance ==
    /\ now < MaxNow
    /\ now' = now + 1
    /\ UNCHANGED <<cb_state, cb_failures, cb_successes, cb_open_until, tpc, cb_streak, cb_last,
                   cb_run, admitted_in, notBreakerVars>>

BreakerStep ==
    \E t \in Callers :
        \/ CallEnter(t)
        \/ CallRejected(t)
        \/ Invoke(t)
        \/ FuncReturns(t)
        \/ FuncRaises(t)

\* ------------------------------------------- registry of named breakers

Getters == DOMAIN gpc

\* get_circuit: if name not in _circuits
GetCheck(g) ==
    /\ gpc[g] = "start"
    /\ gpc' = [gpc EXCEPT ![g] = IF circuits = 0 THEN "create" ELSE "return"]
    /\ UNCHANGED <<circuits, created, gret, notRegistryVars>>

\* get_circuit: _circuits[name] = CircuitBreaker(...)
GetCreate(g) ==
    /\ gpc[g] = "create"
    /\ created' = created + 1
    /\ circuits' = created + 1
    /\ gpc' = [gpc EXCEPT ![g] = "return"]
    /\ UNCHANGED <<gret, notRegistryVars>>

\* get_circuit: return _circuits[name]
GetReturn(g) ==
    /\ gpc[g] = "return"
    /\ gret' = [gret EXCEPT ![g] = circuits]
    /\ gpc' = [gpc EXCEPT ![g] = "done"]
    /\ UNCHANGED <<circuits, created, notRegistryVars>>

get_circuit ==
    \E g \in Getters : GetCheck(g) \/ GetCreate(g) \/ GetReturn(g)

\* ------------------------------------------------------- backfill chunker

Min(a, b) == IF a < b THEN a ELSE b

\* list.reverse()
Reverse(seq) == [i \in 1..Len(seq) |-> seq[Len(seq) + 1 - i]]

\* chunk_delta = timedelta(hours=chunk_hours)
chunk_delta == chunk_hours * UnitsPerHour

window_end_unclamped(current_start, delta, end) == current_start + delta

\* current_end = min(current_start + chunk_delta, end_time)
window_end(current_start, delta, end) == Min(current_start + delta, end)

\* the while loop that builds the list of chunks
RECURSIVE build_chunks(_, _, _)
build_chunks(current_start, delta, end) ==
    IF current_start < end
    THEN <<<<current_start, window_end(current_start, delta, end)>>>>
             \o build_chunks(window_end(current_start, delta, end), delta, end)
    ELSE <<>>

\* run_backfill up to the for loop: build the list, reverse it for LIFO
BuildChunks ==
    /\ bpc = "build"
    /\ chunks' = IF lifo THEN Reverse(build_chunks(start_time, chunk_delta, end_time))
                 ELSE build_chunks(start_time, chunk_delta, end_time)
    /\ chunk_num' = 1
    /\ bpc' = "loop"
    /\ UNCHANGED <<start_time, end_time, chunk_hours, lifo, total_fetched, total_inserted,
                   slept, attempted, raised, notBackfillVars>>

\* the while loop one iteration at a time; current_start is start_time before the
\* first iteration and the end of the last window appended after it
loop_current_start == IF chunks = <<>> THEN start_time ELSE chunks[Len(chunks)][2]

\* the windows a run is followed for; a loop that terminates needs at most MaxTime
MaxWindows == MaxTime + 1

\* one iteration of the while loop: append (current_start, current_end), advance
WindowLoopBody ==
    /\ bpc = "build"
    /\ loop_current_start < end_time
    /\ Len(chunks) < MaxWindows
    /\ chunks' = Append(chunks, <<loop_current_start,
                                  window_end(loop_current_start, chunk_delta, end_time)>>)
    /\ UNCHANGED <<start_time, end_time, chunk_hours, lifo, bpc, chunk_num, total_fetched,
                   total_inserted, slept, attempted, raised, notBackfillVars>>

\* the loop condition fails: reverse the list for LIFO and go on to the for loop
WindowLoopExit ==
    /\ bpc = "build"
    /\ ~(loop_current_start < end_time)
    /\ chunks' = IF lifo THEN Reverse(chunks) ELSE chunks
    /\ chunk_num' = 1
    /\ bpc' = "loop"
    /\ UNCHANGED <<start_time, end_time, chunk_hours, lifo, total_fetched, total_inserted,
                   slept, attempted, raised, notBackfillVars>>

Outcomes == {"new", "existing", "empty", "fetch_error", "upsert_error"}

next_after_error_abort(n) == Len(chunks) + 1

\* except Exception: log, continue to next chunk
next_after_error(n) == n + 1

\* one iteration of the for loop: fetch the window, upsert what came back
ProcessChunk(outcome) ==
    /\ bpc = "loop"
    /\ chunk_num <= Len(chunks)
    /\ attempted' = Append(attempted, chunks[chunk_num])
    /\ total_fetched' = IF outcome \in {"new", "existing"} THEN total_fetched + 1
                        ELSE total_fetched
    /\ total_inserted' = IF outcome = "new" THEN total_inserted + 1 ELSE total_inserted
    /\ slept' = (outcome \notin {"fetch_error", "upsert_error"})
    /\ raised' = IF outcome \in {"fetch_error", "upsert_error"} THEN raised \cup {chunk_num}
                 ELSE raised
    /\ chunk_num' = IF outcome \in {"fetch_error", "upsert_error"}
                    THEN next_after_error(chunk_num)
                    ELSE chunk_num + 1
    /\ UNCHANGED <<start_time, end_time, chunk_hours, lifo, chunks, bpc, notBackfillVars>>

\* return total_fetched, total_inserted
BackfillReturn ==
    /\ bpc = "loop"
    /\ chunk_num > Len(chunks)
    /\ bpc' = "done"
    /\ UNCHANGED <<start_time, end_time, chunk_hours, lifo, chunks, chunk_num, total_fetched,
                   total_inserted, slept, attempted, raised, notBackfillVars>>

run_backfill ==
    \/ BuildChunks
    \/ \E outcome \in Outcomes : ProcessChunk(outcome)
    \/ BackfillReturn

\* ------------------------------------------------- chunked transcript merge

\* the words the model's transcripts are made of; str.lower() maps "A" to "a"
Words == {"a", "A", "b"}
lower(w) == IF w = "A" THEN "a" ELSE w
Lowered(ws) == [i \in 1..Len(ws) |-> lower(ws[i])]

\* ws[-n:] and ws[:n] for n >= 1
LastWords(ws, n) == IF Len(ws) <= n THEN ws ELSE SubSeq(ws, Len(ws) - n + 1, Len(ws))
FirstWords(ws, n) == IF Len(ws) <= n THEN ws ELSE SubSeq(ws, 1, n)

shortest_overlap(matches) ==
    IF matches = {} THEN 0 ELSE CHOOSE k \in matches : \A j \in matches : k <= j

\* _remove_overlap: the loop keeps the last, hence the largest, matching overlap_len
best_overlap(matches) ==
    IF matches = {} THEN 0 ELSE CHOOSE k \in matches : \A j \in matches : j <= k

\* _remove_overlap(prev_text, current_text, max_overlap_words)
remove_overlap(prev_text, current_text, max_overlap_words) ==
    IF prev_text = <<>> \/ current_text = <<>> THEN current_text
    ELSE LET prev_words == LastWords(prev_text, max_overlap_words)
             current_words == current_text
             longest == Min(Min(Len(prev_words), Len(current_words)), max_overlap_words)
             matches == {overlap_len \in 1..longest :
                            Lowered(LastWords(prev_words, overlap_len))
                                = Lowered(FirstWords(current_words, overlap_len))}
         IN SubSeq(current_words, best_overlap(matches) + 1, Len(current_words))

\* the for loop of _merge_chunk_transcripts from chunk i on, merged_parts collected so far
RECURSIVE merge_parts(_, _, _)
merge_parts(chunk_texts, i, merged_parts) ==
    IF i > Len(chunk_texts) THEN merged_parts
    ELSE LET text == chunk_texts[i] IN
         IF text = <<>> THEN merge_parts(chunk_texts, i + 1, merged_parts)
         ELSE IF i = 1 THEN merge_parts(chunk_texts, i + 1, Append(merged_parts, text))
         ELSE LET prev == IF merged_parts = <<>> THEN <<>>
                          ELSE merged_parts[Len(merged_parts)]
                  rest == remove_overlap(prev, text, MaxOverlapWords)
              IN merge_parts(chunk_texts, i + 1,
                             IF rest = <<>> THEN merged_parts ELSE Append(merged_parts, rest))

\* " ".join(parts), as a word list
RECURSIVE JoinWords(_)
JoinWords(parts) == IF parts = <<>> THEN <<>> ELSE Head(parts) \o JoinWords(Tail(parts))

\* _merge_chunk_transcripts(transcripts)
merge_chunk_transcripts(chunk_texts) ==
    IF chunk_texts = <<>> THEN <<>>
    ELSE IF Len(chunk_texts) = 1 THEN chunk_texts[1]
    ELSE JoinWords(merge_parts(chunk_texts, 1, <<>>))

MergeTranscripts ==
    /\ mpc = "call"
    /\ merged_text' = merge_chunk_transcripts(transcripts)
    /\ mpc' = "done"
    /\ UNCHANGED <<transcripts, all_segments, chunk_offsets, merged_segments, dpc,
                   transcript_text, diarization_segments, aligned_segments, apc, notMediaVars>>

\* ------------------------------------------------ chunked diarization merge

\* the segments _diarize_single can return for one chunk, in chunk-local time units
ChunkSegments ==
    {[start |-> a, end |-> b, speaker |-> "SPEAKER_00"] : a \in 0..ChunkUnits, b \in 0..ChunkUnits}
        \ {seg \in [start : 0..ChunkUnits, end : 0..ChunkUnits, speaker : {"SPEAKER_00"}] :
              seg.end < seg.start}

\* diarize: step = DIARIZATION_CHUNK_SECONDS - DIARIZATION_OVERLAP_SECONDS,
\* chunk_offsets = [i * step for i in range(len(chunk_paths))]
offsets_for(n) == [i \in 1..n |-> (i - 1) * (ChunkUnits - OverlapUnits)]

\* _merge_diarization_segments: only add if segment has positive duration
has_positive_duration(seg) == seg.end > seg.start

\* _merge_diarization_segments: a segment of a later chunk that starts in the overlap
\* is trimmed to start where the overlap ends
trimmed_start(chunk_idx, start, offset, overlap) ==
    IF chunk_idx > 1 /\ start < offset + overlap THEN offset + overlap ELSE start

\* the body of the inner loop: the segments (none or one) a chunk's segment contributes
adjusted(chunk_idx, seg, offset, overlap) ==
    LET adjusted_seg == [start |-> seg.start + offset, end |-> seg.end + offset,
                         speaker |-> seg.speaker]
        final == [adjusted_seg EXCEPT
                     !.start = trimmed_start(chunk_idx, adjusted_seg.start, offset, overlap)]
    IN IF chunk_idx > 1 /\ adjusted_seg.end <= offset + overlap THEN <<>>
       ELSE IF has_positive_duration(final) THEN <<final>> ELSE <<>>

\* the two nested loops from segment j of chunk chunk_idx on
RECURSIVE collect(_, _, _, _, _)
collect(segment_lists, offsets, overlap, chunk_idx, j) ==
    IF chunk_idx > Min(Len(segment_lists), Len(offsets)) THEN <<>>
    ELSE IF j > Len(segment_lists[chunk_idx])
         THEN collect(segment_lists, offsets, overlap, chunk_idx + 1, 1)
         ELSE adjusted(chunk_idx, segment_lists[chunk_idx][j], offsets[chunk_idx], overlap)
                  \o collect(segment_lists, offsets, overlap, chunk_idx, j + 1)

InsertByStartUnstable(sorted, x) ==
    LET k == Cardinality({i \in 1..Len(sorted) : sorted[i].start < x.start})
    IN SubSeq(sorted, 1, k) \o <<x>> \o SubSeq(sorted, k + 1, Len(sorted))

\* list.sort(key=start) is stable: x goes behind every element whose start is <= its own
InsertByStart(sorted, x) ==
    LET k == Cardinality({i \in 1..Len(sorted) : sorted[i].start <= x.start})
    IN SubSeq(sorted, 1, k) \o <<x>> \o SubSeq(sorted, k + 1, Len(sorted))

RECURSIVE SortByStart(_)
SortByStart(segs) ==
    IF segs = <<>> THEN <<>>
    ELSE InsertByStart(SortByStart(SubSeq(segs, 1, Len(segs) - 1)), segs[Len(segs)])

\* _merge_diarization_segments(all_segments, chunk_offsets, overlap)
merge_diarization_segments(segment_lists, offsets, overlap) ==
    IF segment_lists = <<>> THEN <<>>
    ELSE SortByStart(collect(segment_lists, offsets, overlap, 1, 1))

MergeSegments ==
    /\ dpc = "call"
    /\ merged_segments' = merge_diarization_segments(all_segments, chunk_offsets, OverlapUnits)
    /\ dpc' = "done"
    /\ UNCHANGED <<transcripts, merged_text, mpc, all_segments, chunk_offsets,
                   transcript_text, diarization_segments, aligned_segments, apc, notMediaVars>>

\* ------------------------------------------------ transcript / speaker alignment

\* whitespace-separated tokens of a transcript; "-" stands for a token made of
\* punctuation only
Tokens == {"a", "b", "-"}

Speakers == {"SPEAKER_00", "SPEAKER_01"}

DiarizationSegments == [start : 0..MaxSegTime, end : 0..MaxSegTime, speaker : Speakers]

\* _split_into_words: text.split() without the tokens matching ^[.,!?;:'"()-]+$
is_punctuation(w) == w = "-"
split_into_words(text) == SelectSeq(text, LAMBDA w : ~is_punctuation(w))

Max(a, b) == IF a >= b THEN a ELSE b

signed_duration(seg) == seg.end - seg.start

\* max(0, seg.get("end", 0) - seg.get("start", 0))
duration(seg) == Max(0, seg.end - seg.start)

RECURSIVE total_duration(_)
total_duration(segs) ==
    IF segs = <<>> THEN 0 ELSE duration(Head(segs)) + total_duration(Tail(segs))

\* round(p / q) for q > 0. The code rounds the float duration * (len(words) /
\* total_duration); away from a tie that is the nearest integer, at a tie the float
\* product may fall on either side, so the tie is resolved by tie_up.
round(p, q, tie_up) ==
    LET f == p \div q
        r == p % q
    IN IF 2 * r < q THEN f
       ELSE IF 2 * r > q THEN f + 1
       ELSE IF tie_up THEN f + 1 ELSE f

\* Python's s[a:b]
slice_index(i, n) == IF i < 0 THEN Max(0, i + n) ELSE Min(i, n)
PySlice(s, a, b) == SubSeq(s, slice_index(a, Len(s)) + 1, slice_index(b, Len(s)))

\* the distribution loop from segment i on; yields the aligned segments and word_index
RECURSIVE distribute(_, _, _, _, _, _)
distribute(words, segs, total, i, word_index, tie_up) ==
    IF i > Len(segs) THEN [aligned |-> <<>>, word_index |-> word_index]
    ELSE LET seg == segs[i]
             word_count == Min(round(duration(seg) * Len(words), total, tie_up),
                               Len(words) - word_index)
             segment_words == PySlice(words, word_index, word_index + word_count)
             rest == distribute(words, segs, total, i + 1, word_index + word_count, tie_up)
         IN [aligned |-> <<[speaker |-> seg.speaker, start |-> seg.start, end |-> seg.end,
                            text |-> segment_words]>> \o rest.aligned,
             word_index |-> rest.word_index]

\* handle remaining words (add to last segment)
add_remaining(words, aligned, word_index) ==
    IF word_index < Len(words) /\ aligned # <<>>
    THEN [aligned EXCEPT ![Len(aligned)].text = @ \o PySlice(words, word_index, Len(words))]
    ELSE aligned

\* _merge_same_speaker_segments from segment i on, with the segments already closed
\* in merged and the open one in current (<<>> stands for None)
RECURSIVE merge_same_speaker(_, _, _, _)
merge_same_speaker(segments, i, merged, current) ==
    IF i > Len(segments) THEN merged \o current
    ELSE LET seg == segments[i]
         IN IF current = <<>> THEN merge_same_speaker(segments, i + 1, merged, <<seg>>)
            ELSE IF seg.speaker = current[1].speaker
                 THEN merge_same_speaker(segments, i + 1, merged,
                          <<[current[1] EXCEPT !.end = seg.end, !.text = @ \o seg.text]>>)
                 ELSE merge_same_speaker(segments, i + 1, merged \o current, <<seg>>)

merge_same_speaker_segments(segments) ==
    IF segments = <<>> THEN <<>> ELSE merge_same_speaker(segments, 1, <<>>, <<>>)

\* align_transcript_with_speakers(transcript_text, diarization_segments)
align_transcript_with_speakers(text, segs, tie_up) ==
    LET words == split_into_words(text)
        total == total_duration(segs)
    IN IF text = <<>> \/ segs = <<>> THEN segs
       ELSE IF words = <<>> THEN segs
       ELSE IF total <= 0 THEN segs
       ELSE LET d == distribute(words, segs, total, 1, 0, tie_up)
            IN merge_same_speaker_segments(add_remaining(words, d.aligned, d.word_index))

Align ==
    /\ apc = "call"
    /\ \E tie_up \in BOOLEAN :
           aligned_segments' =
               align_transcript_with_speakers(transcript_text, diarization_segments, tie_up)
    /\ apc' = "done"
    /\ UNCHANGED <<transcripts, merged_text, mpc, all_segments, chunk_offsets, merged_segments,
                   dpc, transcript_text, diarization_segments, notMediaVars>>

\* ------------------------------------------------ worker main loops and shutdown

Lanes == {"vault", "factory", "judge"}

\* BATCH_SIZE of the vault and of the judge, scaled; the factory takes one call at a time
batch_limit(lane) == IF lane = "factory" THEN 1 ELSE MaxBatch

\* signal_handler: SIGTERM / SIGINT set the flag, at any point of the main thread
signal_handler(lane) ==
    /\ lpc[lane] # "exited"
    /\ ~shutdown_requested[lane]
    /\ shutdown_requested' = [shutdown_requested EXCEPT ![lane] = TRUE]
    /\ UNCHANGED <<lpc, in_flight, late_batches, notLoopVars>>

\* while not shutdown_requested:
LoopCheck(lane) ==
    /\ lpc[lane] = "loop"
    /\ lpc' = [lpc EXCEPT ![lane] = IF shutdown_requested[lane] THEN "exited" ELSE "fetch"]
    /\ UNCHANGED <<shutdown_requested, in_flight, late_batches, notLoopVars>>

\* the fetch (vault), fetch and lock (factory, judge) of the next batch: it raises, comes
\* back empty, or yields n calls to process
FetchBatch(lane) ==
    /\ lpc[lane] = "fetch"
    /\ \E n \in 0..batch_limit(lane), fetch_raises \in BOOLEAN :
           /\ fetch_raises => n = 0
           /\ lpc' = [lpc EXCEPT ![lane] = IF n = 0 THEN "sleep" ELSE "batch"]
           /\ in_flight' = [in_flight EXCEPT ![lane] = n]
           /\ late_batches' = [late_batches EXCEPT
                                  ![lane] = IF n > 0 /\ shutdown_requested[lane] THEN @ + 1 ELSE @]
    /\ UNCHANGED <<shutdown_requested, notLoopVars>>

\* one call of the batch runs to the return of process_single_call / process_call
ProcessOne(lane) ==
    /\ lpc[lane] = "batch"
    /\ in_flight[lane] > 0
    /\ in_flight' = [in_flight EXCEPT ![lane] = @ - 1]
    /\ UNCHANGED <<shutdown_requested, lpc, late_batches, notLoopVars>>

\* process_batch returns once every future has completed
BatchDone(lane) ==
    /\ lpc[lane] = "batch"
    /\ in_flight[lane] = 0
    /\ lpc' = [lpc EXCEPT ![lane] = "loop"]
    /\ UNCHANGED <<shutdown_requested, in_flight, late_batches, notLoopVars>>

\* time.sleep(POLL_INTERVAL) on an empty queue, time.sleep(5) after an exception
Wake(lane) ==
    /\ lpc[lane] = "sleep"
    /\ lpc' = [lpc EXCEPT ![lane] = "loop"]
    /\ UNCHANGED <<shutdown_requested, in_flight, late_batches, notLoopVars>>

MainLoopStep(lane) ==
    LoopCheck(lane) \/ FetchBatch(lane) \/ ProcessOne(lane) \/ BatchDone(lane) \/ Wake(lane)

NoVault == /\ vpc = <<>>
           /\ vbatch = <<>>
NoFactory == /\ fpc = <<>>
             /\ fcall = <<>>
NoJudge == /\ jpc = <<>>
           /\ jcand = <<>>
           /\ jlocked = <<>>
           /\ jtodo = <<>>

VaultPool(n) == /\ vpc = [w \in 1..n |-> "poll"]
                /\ vbatch = [w \in 1..n |-> {}]
FactoryPool(n) == /\ fpc = [w \in 1..n |-> "poll"]
                  /\ fcall = [w \in 1..n |-> NoCall]
JudgePool(n) == /\ jpc = [w \in 1..n |-> "poll"]
                /\ jcand = [w \in 1..n |-> <<>>]
                /\ jlocked = [w \in 1..n |-> {}]
                /\ jtodo = [w \in 1..n |-> {}]

\* rows as map_ringba_to_call inserts them: 'pending' or 'skipped', recording URL or none
NewRows(ids) ==
    /\ status \in [ids -> {"pending", "skipped"}]
    /\ audio_url \in [ids -> BOOLEAN]
    /\ retry_count = [c \in ids |-> 0]
    /\ storage_path = [c \in ids |-> "null"]
    /\ qa_flags = [c \in ids |-> "null"]
    /\ processing_error = [c \in ids |-> "null"]
    /\ age = [c \in ids |-> 0]
    /\ hist = [c \in ids |-> NoHist]

\* rows as the vault lane delivers them to the factory lane
DownloadedRows(ids) ==
    /\ status = [c \in ids |-> "downloaded"]
    /\ audio_url = [c \in ids |-> TRUE]
    /\ retry_count = [c \in ids |-> 0]
    /\ storage_path = [c \in ids |-> "path"]
    /\ qa_flags = [c \in ids |-> "null"]
    /\ processing_error = [c \in ids |-> "null"]
    /\ age = [c \in ids |-> 0]
    /\ hist = [c \in ids |-> NoHist]

\* rows as the factory lane delivers them to the judge lane
TranscribedRows(ids) ==
    /\ status = [c \in ids |-> "transcribed"]
    /\ audio_url = [c \in ids |-> TRUE]
    /\ retry_count \in [ids -> 1..MaxAttempts]
    /\ storage_path = [c \in ids |-> "path"]
    /\ qa_flags = [c \in ids |-> "null"]
    /\ processing_error = [c \in ids |-> "null"]
    /\ age = [c \in ids |-> 0]
    /\ hist = [c \in ids |-> NoHist]

BreakerStart(n) ==
    /\ cb_state = "closed"
    /\ cb_failures = 0
    /\ cb_successes = 0
    /\ cb_open_until = 0
    /\ now = 0
    /\ tpc = [t \in 1..n |-> "idle"]
    /\ cb_streak = 0
    /\ cb_last = NoOutcome
    /\ cb_run = 0
    /\ admitted_in = [t \in 1..n |-> "none"]
NoBreaker == BreakerStart(0)

RegistryStart(n) ==
    /\ circuits = 0
    /\ created = 0
    /\ gpc = [g \in 1..n |-> "start"]
    /\ gret = [g \in 1..n |-> 0]
NoRegistry == RegistryStart(0)

BackfillArgs(times, hours) ==
    /\ start_time \in times
    /\ end_time \in times
    /\ chunk_hours \in hours
    /\ lifo \in BOOLEAN
    /\ chunks = <<>>
    /\ bpc = "build"
    /\ chunk_num = 0
    /\ total_fetched = 0
    /\ total_inserted = 0
    /\ slept = FALSE
    /\ attempted = <<>>
    /\ raised = {}
NoBackfill ==
    /\ start_time = 0
    /\ end_time = 0
    /\ chunk_hours = 1
    /\ lifo = TRUE
    /\ chunks = <<>>
    /\ bpc = "off"
    /\ chunk_num = 0
    /\ total_fetched = 0
    /\ total_inserted = 0
    /\ slept = FALSE
    /\ attempted = <<>>
    /\ raised = {}

NoTextMerge == transcripts = <<>> /\ merged_text = <<>> /\ mpc = "off"
NoSegmentMerge ==
    all_segments = <<>> /\ chunk_offsets = <<>> /\ merged_segments = <<>> /\ dpc = "off"
NoAlignment ==
    /\ transcript_text = <<>>
    /\ diarization_segments = <<>>
    /\ aligned_segments = <<>>
    /\ apc = "off"
NoMedia == NoTextMerge /\ NoSegmentMerge /\ NoAlignment

NoMainLoop ==
    /\ shutdown_requested = <<>>
    /\ lpc = <<>>
    /\ in_flight = <<>>
    /\ late_batches = <<>>

OtherIdle == NoBreaker /\ NoRegistry /\ NoBackfill /\ NoMedia /\ NoMainLoop

FactoryStep ==
    \E w \in FactoryWorkers :
        \/ FactoryFetch(w)
        \/ FactoryLock(w)
        \/ FactoryLockRaises(w)
        \/ FactorySucceed(w)
        \/ FactoryFail(w)
        \/ FactoryCrash(w)

\* the whole pipeline; concurrent judge workers are covered by SpecJudge
Init == NewRows(Calls) /\ VaultPool(NumVault) /\ FactoryPool(NumFactory) /\ JudgePool(1) /\ OtherIdle
Next == VaultStep \/ FactoryStep \/ JudgeStep \/ Tick \/ ZombieReaper
Spec == Init /\ [][Next]_vars

\* the vault lane alone
InitVault == NewRows(1..NumVaultCalls) /\ VaultPool(NumVault) /\ NoFactory /\ NoJudge /\ OtherIdle
NextVault == VaultStep \/ Tick
SpecVault == InitVault /\ [][NextVault]_vars

\* the factory lane alone, with the sweep
InitFactory == DownloadedRows(1..NumFactoryCalls) /\ NoVault /\ FactoryPool(NumFactory) /\ NoJudge /\ OtherIdle
NextFactory == FactoryStep \/ Tick \/ ZombieReaper
SpecFactory == InitFactory /\ [][NextFactory]_vars

\* one factory worker whose claims are lost to crashes, time, and the sweep
InitSweep ==
    DownloadedRows(1..NumSweepCalls) /\ NoVault /\ FactoryPool(1) /\ NoJudge /\ OtherIdle
ClaimAndCrash == \E w \in FactoryWorkers : FactoryFetch(w) \/ FactoryLock(w) \/ FactoryCrash(w)
NextSweep == ClaimAndCrash \/ Tick \/ ZombieReaper
SpecSweep == InitSweep /\ [][NextSweep]_vars

\* one worker that claims calls and gives them back with release_call, with the sweep
InitRelease ==
    DownloadedRows(1..NumSweepCalls) /\ NoVault /\ FactoryPool(1) /\ NoJudge /\ OtherIdle
ClaimAndRelease ==
    \E w \in FactoryWorkers :
        FactoryFetch(w) \/ FactoryLock(w) \/ FactoryRelease(w) \/ FactoryResume(w)
NextRelease == ClaimAndRelease \/ Tick \/ ZombieReaper
SpecRelease == InitRelease /\ [][NextRelease]_vars

\* the judge lane alone
InitJudge == TranscribedRows(1..NumJudgeCalls) /\ NoVault /\ NoFactory /\ JudgePool(NumJudge) /\ OtherIdle
NextJudge == JudgeStep
SpecJudge == InitJudge /\ [][NextJudge]_vars

\* the judge lane alone, no worker process is killed
NextJudgeRun == JudgeRun
SpecJudgeRun == InitJudge /\ [][NextJudgeRun]_vars

\* N factory workers that fetched the same 'downloaded' call all call lock_call
InitLockRace ==
    \E n \in 0..(MaxAttempts - 1) :
        /\ status = [c \in {1} |-> "downloaded"]
        /\ retry_count = [c \in {1} |-> n]
        /\ audio_url = [c \in {1} |-> TRUE]
        /\ storage_path = [c \in {1} |-> "path"]
        /\ qa_flags = [c \in {1} |-> "null"]
        /\ processing_error = [c \in {1} |-> IF n = 0 THEN "null" ELSE "factory"]
        /\ age = [c \in {1} |-> 0]
        /\ hist = [c \in {1} |-> NoHist]
        /\ fpc = [w \in 1..NumRacers |-> "fetched"]
        /\ fcall = [w \in 1..NumRacers |-> [id |-> 1, retry_count |-> n]]
        /\ NoVault /\ NoJudge
    /\ OtherIdle
NextLockRace == \E w \in FactoryWorkers : FactoryLock(w)
SpecLockRace == InitLockRace /\ [][NextLockRace]_vars

\* test_concurrent_lock: create_test_call, then N threads run attempt_lock
InitVaultLockTest ==
    /\ status = [c \in {1} |-> "pending"]
    /\ audio_url = [c \in {1} |-> TRUE]
    /\ retry_count = [c \in {1} |-> 0]
    /\ storage_path = [c \in {1} |-> "null"]
    /\ qa_flags = [c \in {1} |-> "null"]
    /\ processing_error = [c \in {1} |-> "null"]
    /\ age = [c \in {1} |-> 0]
    /\ hist = [c \in {1} |-> NoHist]
    /\ vpc = [w \in 1..NumRacers |-> "attempt"]
    /\ vbatch = [w \in 1..NumRacers |-> {1}]
    /\ NoFactory /\ NoJudge
    /\ OtherIdle
NextVaultLockTest == (\E w \in VaultWorkers : attempt_lock(w)) \/ Tick
SpecVaultLockTest == InitVaultLockTest /\ [][NextVaultLockTest]_vars

\* the circuit breaker alone: one CircuitBreaker shared by the callers
NoPipeline == NewRows({}) /\ NoVault /\ NoFactory /\ NoJudge
InitBreaker == NoPipeline /\ BreakerStart(NumCallers) /\ NoRegistry /\ NoBackfill /\ NoMedia /\ NoMainLoop
NextBreaker == BreakerStep \/ StateQuery \/ reset \/ Advance
SpecBreaker == InitBreaker /\ [][NextBreaker]_vars

\* first calls of get_circuit for one name from several threads
InitRegistry == NoPipeline /\ NoBreaker /\ RegistryStart(NumThreads) /\ NoBackfill /\ NoMedia /\ NoMainLoop
NextRegistry == get_circuit
SpecRegistry == InitRegistry /\ [][NextRegistry]_vars

\* the pipeline with one worker per lane, while ingest re-syncs the calls it created
InitIngest ==
    NewRows(1..NumIngestCalls) /\ VaultPool(1) /\ FactoryPool(1) /\ JudgePool(1) /\ OtherIdle
NextIngest == IngestStep \/ VaultStep \/ FactoryStep \/ JudgeStep
SpecIngest == InitIngest /\ [][NextIngest]_vars

\* the results of n chunks: the items of flat, cut into n consecutive pieces at cuts
Cuts(n, m) == {c \in [1..(n - 1) -> 0..m] : \A i \in 1..(n - 2) : c[i] <= c[i + 1]}
Pieces(flat, cuts, n) ==
    [i \in 1..n |-> SubSeq(flat, (IF i = 1 THEN 0 ELSE cuts[i - 1]) + 1,
                                 IF i = n THEN Len(flat) ELSE cuts[i])]

\* one call of _merge_chunk_transcripts for every list of at most NumChunks chunk
\* transcripts of at most MaxWords words each and MaxTotalWords words together
TextMergeCall ==
    /\ \E n \in 0..NumChunks, m \in 0..MaxTotalWords :
           /\ n = 0 => m = 0
           /\ \E flat \in [1..m -> Words], cuts \in Cuts(n, m) :
                  /\ \A i \in 1..n : Len(Pieces(flat, cuts, n)[i]) <= MaxWords
                  /\ transcripts = Pieces(flat, cuts, n)
    /\ merged_text = <<>>
    /\ mpc = "call"

\* one call of _merge_diarization_segments for every list of at most NumChunks chunk
\* results holding at most MaxSegs segments together
SegmentMergeCall ==
    /\ \E n \in 0..NumChunks, m \in 0..MaxSegs :
           /\ n = 0 => m = 0
           /\ \E flat \in [1..m -> ChunkSegments], cuts \in Cuts(n, m) :
                  all_segments = Pieces(flat, cuts, n)
    /\ chunk_offsets = offsets_for(Len(all_segments))
    /\ merged_segments = <<>>
    /\ dpc = "call"

InitMerge ==
    /\ NoPipeline /\ NoBreaker /\ NoRegistry /\ NoBackfill /\ NoAlignment /\ NoMainLoop
    /\ \/ TextMergeCall /\ NoSegmentMerge
       \/ NoTextMerge /\ SegmentMergeCall
NextMerge == MergeTranscripts \/ MergeSegments
SpecMerge == InitMerge /\ [][NextMerge]_vars

\* one call of align_transcript_with_speakers for every transcript of at most MaxTokens
\* tokens and every list of at most NumSegments diarization segments
InitAlignment ==
    /\ NoPipeline /\ NoBreaker /\ NoRegistry /\ NoBackfill /\ NoTextMerge /\ NoSegmentMerge /\ NoMainLoop
    /\ transcript_text \in UNION {[1..n -> Tokens] : n \in 0..MaxTokens}
    /\ diarization_segments \in UNION {[1..n -> DiarizationSegments] : n \in 0..NumSegments}
    /\ aligned_segments = <<>>
    /\ apc = "call"
NextAlignment == Align
SpecAlignment == InitAlignment /\ [][NextAlignment]_vars

\* one worker process per lane in its main loop; the signal may arrive at any time
InitShutdown ==
    /\ NoPipeline /\ NoBreaker /\ NoRegistry /\ NoBackfill /\ NoMedia
    /\ shutdown_requested = [lane \in Lanes |-> FALSE]
    /\ lpc = [lane \in Lanes |-> "loop"]
    /\ in_flight = [lane \in Lanes |-> 0]
    /\ late_batches = [lane \in Lanes |-> 0]
MainLoops == \E lane \in Lanes : MainLoopStep(lane)
Signals == \E lane \in Lanes : signal_handler(lane)
NextShutdown == MainLoops \/ Signals
SpecShutdown == InitShutdown /\ [][NextShutdown]_vars
FairSpecShutdown == SpecShutdown /\ \A lane \in Lanes : WF_vars(MainLoopStep(lane))

\* one run of run_backfill for every time range and chunk size within the bounds
InitBackfill ==
    NoPipeline /\ NoBreaker /\ NoRegistry /\ BackfillArgs(0..MaxTime, 1..MaxChunkHours) /\ NoMedia /\ NoMainLoop
NextBackfill == run_backfill
SpecBackfill == InitBackfill /\ [][NextBackfill]_vars

\* the window-building loop of run_backfill for every time range and every
\* --chunk-hours value argparse accepts with type=int, negative and zero included;
\* the interpreter keeps executing the loop
InitWindowLoop ==
    /\ NoPipeline /\ NoBreaker /\ NoRegistry /\ NoMedia /\ NoMainLoop
    /\ BackfillArgs(0..MaxTime, (0 - MaxNegativeHours)..MaxChunkHours)
NextWindowLoop == WindowLoopBody \/ WindowLoopExit
SpecWindowLoop == InitWindowLoop /\ [][NextWindowLoop]_vars
FairSpecWindowLoop == SpecWindowLoop /\ WF_vars(NextWindowLoop)

\* the vault lane under the scheduling the deployment provides: the worker loops keep
\* polling and processing; which outcome a download has is not owed
FairSpecVault ==
    /\ SpecVault
    /\ WF_vars(VaultStep)

\* the factory lane under the scheduling the deployment provides: every worker loop
\* keeps running, time passes, and the cron sweep keeps firing; crashes are not owed
FairSpecFactory ==
    /\ SpecFactory
    /\ WF_vars(Tick)
    /\ WF_vars(ZombieReaper)
    /\ \A w \in 1..NumFactory :
          /\ WF_vars(FactoryFetch(w))
          /\ WF_vars(FactoryLock(w))
          /\ WF_vars(FactorySucceed(w) \/ FactoryFail(w))

\* ------------------------------------------------------------------ claims

FactoryHolders(c) == {w \in FactoryWorkers : fpc[w] = "locked" /\ fcall[w].id = c}
JudgeHolders(c) == {w \in JudgeWorkers : c \in jtodo[w] \/ (jpc[w] = "locking" /\ c \in jlocked[w])}
VaultProcessing(c) == {w \in VaultWorkers : vpc[w] = "batch" /\ c \in vbatch[w]}

\* C1: of N workers that call lock_call on the same 'downloaded' call, exactly one
\* gets the record (status 'processing', retry_count = fetched + 1) and the others
\* get None and leave the record as the winner wrote it.
C1_LockCallExactlyOne ==
    \A c \in Rows :
        LET winners == {w \in FactoryWorkers : fpc[w] = "locked" /\ fcall[w].id = c}
            waiting == {w \in FactoryWorkers : fpc[w] = "fetched" /\ fcall[w].id = c}
            losers == {w \in FactoryWorkers : fpc[w] = "poll"}
        IN /\ Cardinality(winners) <= 1
           /\ waiting = {} => Cardinality(winners) = 1
           /\ winners = {} => losers = {} /\ status[c] = "downloaded"
           /\ \A w \in waiting : winners = {} => retry_count[c] = fcall[w].retry_count
           /\ \A w \in winners : /\ status[c] = "processing"
                                 /\ retry_count[c] = fcall[w].retry_count + 1
                                 /\ hist[c].claims = 1

C1_Witness ==
    /\ Cardinality({w \in FactoryWorkers : fpc[w] = "locked"}) = 1
    /\ Cardinality({w \in FactoryWorkers : fpc[w] = "poll"}) = NumRacers - 1
    /\ status[1] = "processing"

\* C2: of N concurrent attempt_lock calls on one pending call exactly one succeeds,
\* the others report failure, and the call's status stays 'pending'.
C2_AttemptLockExactlyOne ==
    \A c \in Rows :
        LET won == {w \in VaultWorkers : vpc[w] = "won"}
            lost == {w \in VaultWorkers : vpc[w] = "lost"}
            waiting == {w \in VaultWorkers : vpc[w] = "attempt"}
        IN /\ Cardinality(won) <= 1
           /\ waiting = {} => Cardinality(won) = 1
           /\ lost # {} => won # {}
           /\ status[c] = "pending"
           /\ storage_path[c] = (IF won = {} THEN "null" ELSE "vault_lock")

C2_Witness ==
    /\ Cardinality({w \in VaultWorkers : vpc[w] = "won"}) = 1
    /\ Cardinality({w \in VaultWorkers : vpc[w] = "lost"}) = NumRacers - 1
    /\ status[1] = "pending"

\* C3: a call is put in the locked list of at most one judge worker, and the step
\* that claims it (qa_flags null -> lock marker) leaves its status 'transcribed'.
C3_JudgeClaimExclusive ==
    /\ [](\A c \in 1..NumJudgeCalls :
             /\ hist[c].qaclaims <= 1
             /\ Cardinality({w \in 1..NumJudge : c \in jlocked[w]}) <= 1)
    /\ [][\A c \in 1..NumJudgeCalls :
             (qa_flags[c] = "null" /\ qa_flags'[c] = "locked")
                 => (status[c] = "transcribed" /\ status'[c] = "transcribed")]_vars

C3_Witness ==
    \E w \in JudgeWorkers, v \in JudgeWorkers :
        /\ w # v
        /\ jpc[w] = "batch" /\ jlocked[w] # {}
        /\ jpc[v] = "poll" /\ jcand[v] = <<>> /\ jlocked[v] = {}
        /\ \E c \in jlocked[w] : hist[c].qaclaims = 1 /\ status[c] = "transcribed"

\* C4: at every instant a call is being processed by at most one vault worker.
C4_VaultExclusive ==
    \A c \in Rows : Cardinality(VaultProcessing(c)) <= 1

Terminal(c) == status[c] \in {"failed", "flagged", "safe", "skipped"}
Claimable(c) == VaultSelector(c) \/ FactorySelector(c) \/ JudgeSelector(c)
MarkedClaimed(c) ==
    \/ status[c] = "processing"
    \/ status[c] = "transcribed" /\ qa_flags[c] = "locked"
LockedByOne(c) ==
    /\ MarkedClaimed(c)
    /\ Cardinality(FactoryHolders(c)) + Cardinality(JudgeHolders(c)) <= 1

\* C5: every call is in exactly one of: terminal, claimable by its lane's
\* selector, locked by exactly one worker; never in none of them.
C5_ExactlyOneCondition ==
    \A c \in Rows :
        \/ Terminal(c) /\ ~Claimable(c) /\ ~LockedByOne(c)
        \/ ~Terminal(c) /\ Claimable(c) /\ ~LockedByOne(c)
        \/ ~Terminal(c) /\ ~Claimable(c) /\ LockedByOne(c)

\* C6: a call whose every attempt fails (no success, no crash, no sweep) is claimed
\* at most max_attempts times, is 'failed' with the error recorded after the third
\* failure, and is 'failed' only after exactly three claims.
C6_RetryCeiling ==
    \A c \in Rows :
        (~hist[c].succeeded /\ ~hist[c].crashed /\ ~hist[c].reaped) =>
            /\ hist[c].claims <= MaxAttempts
            /\ hist[c].failures >= MaxAttempts =>
                   status[c] = "failed" /\ processing_error[c] # "null"
            /\ status[c] = "failed" =>
                   hist[c].claims = MaxAttempts /\ hist[c].failures = MaxAttempts

\* C7: a call that has failed fewer than max_attempts times and has been processed
\* successfully has never had status 'failed', and once no worker holds it its
\* status is 'transcribed'.
C7_SuccessBeforeCeiling ==
    \A c \in Rows :
        (hist[c].succeeded /\ hist[c].failures < MaxAttempts) =>
            /\ ~hist[c].dead
            /\ FactoryHolders(c) = {} => status[c] = "transcribed"

\* C8: after max_attempts - 1 real failures, one claim lost to a crash and the
\* sweep's reset to 'downloaded', the call is still selected by
\* fetch_next_pending_call.
C8_ZombieResetNeutral ==
    \A c \in Rows :
        ( /\ status[c] = "downloaded"
          /\ hist[c].failures = MaxAttempts - 1
          /\ hist[c].claims = MaxAttempts
          /\ hist[c].crashed /\ hist[c].reaped /\ ~hist[c].succeeded
          /\ FactoryHolders(c) = {} )
        => FactorySelector(c)

\* C9: every call that is 'downloaded' eventually becomes 'transcribed' or 'failed'.
C9_EventuallyResolved ==
    \A c \in 1..NumFactoryCalls :
        [](status[c] = "downloaded" => <>(status[c] \in {"transcribed", "failed"}))

\* C10: no step of the factory lane or of the sweep decreases a call's retry_count.
C10_RetryCountMonotone ==
    [][\A c \in 1..NumFactoryCalls : retry_count'[c] >= retry_count[c]]_vars

\* C11: no step moves a call into 'processing' when its stored retry_count is
\* already at the maximum (recover_failed is not part of the factory lane).
C11_NoLockAtCeiling ==
    [][\A c \in 1..NumFactoryCalls :
          (status[c] # "processing" /\ status'[c] = "processing")
              => retry_count[c] < MaxAttempts]_vars

\* C12: once a call is 'failed', 'flagged' or 'safe', no step of a vault, factory or
\* judge worker (nor the sweep) changes its status.
C12_TerminalStatusKept ==
    [][\A c \in Rows :
          status[c] \in {"failed", "flagged", "safe"} => status'[c] = status[c]]_vars

\* C13: from Closed with a zero failure counter, the failure_threshold-th failed call
\* in a row leaves the breaker Open, and a call entered while it is Open and
\* open_until has not come is rejected and never reaches the wrapped function.
C13_OpensAtThreshold ==
    [][/\ (cb_streak' = failure_threshold /\ cb_streak # failure_threshold)
              => cb_state' = "open"
       /\ \A t \in Callers :
              (tpc[t] = "idle" /\ tpc'[t] # "idle" /\ cb_state = "open" /\ now < cb_open_until)
                  => tpc'[t] = "rejected"
       /\ \A t \in Callers :
              tpc[t] = "rejected" => tpc'[t] \in {"rejected", "idle"}]_vars

C13_Witness ==
    /\ cb_streak = failure_threshold
    /\ cb_state = "open"
    /\ now < cb_open_until
    /\ \E t \in Callers : tpc[t] = "rejected"

\* C14: the wrapped function is never started while the breaker is Open and its
\* open_until has not been reached.
C14_NoInvokeWhileOpen ==
    [][\A t \in Callers :
          (tpc[t] = "admitted" /\ tpc'[t] = "running")
              => ~(cb_state = "open" /\ now < cb_open_until)]_vars

\* C15: Open turns Half-Open only in a call or a state query made at or after
\* open_until = time of opening + recovery_timeout, and a call entered on an Open
\* breaker at or after open_until is admitted.
C15_HalfOpenAfterTimeout ==
    [][/\ (cb_state = "open" /\ cb_state' = "half_open")
              => /\ now >= cb_open_until
                 /\ (\E t \in Callers : CallEnter(t)) \/ StateQuery
       /\ (cb_state # "open" /\ cb_state' = "open")
              => cb_open_until' = now + recovery_timeout
       /\ \A t \in Callers :
              (tpc[t] = "idle" /\ tpc'[t] # "idle" /\ cb_state = "open" /\ now >= cb_open_until)
                  => (tpc'[t] = "admitted" /\ cb_state' = "half_open")]_vars

C15_Witness ==
    /\ cb_state = "half_open"
    /\ cb_open_until > 0
    /\ now >= cb_open_until
    /\ \E t \in Callers : tpc[t] = "running"

\* C16: a success recorded in Half-Open that brings the success counter to
\* success_threshold closes the breaker with failures = 0 and successes = 0; a
\* success that leaves it below the threshold keeps the breaker Half-Open.
C16_ClosesWithCountersReset ==
    [][\A t \in Callers :
          (/\ tpc[t] = "running" /\ tpc'[t] = "idle"
           /\ cb_state = "half_open"
           /\ cb_last'.event = "success")
              => IF cb_successes + 1 >= success_threshold
                 THEN cb_state' = "closed" /\ cb_failures' = 0 /\ cb_successes' = 0
                 ELSE cb_state' = "half_open"]_vars

\* C17: a failure recorded while the breaker is Half-Open leaves it Open with
\* open_until = now + recovery_timeout and the success counter at 0, whatever the
\* number of Half-Open successes before it.
C17_HalfOpenFailureReopens ==
    [][\A t \in Callers :
          (/\ tpc[t] = "running" /\ tpc'[t] = "idle"
           /\ cb_state = "half_open"
           /\ cb_last'.event = "failure")
              => /\ cb_state' = "open"
                 /\ cb_open_until' = now + recovery_timeout
                 /\ cb_successes' = 0]_vars

C17_Witness ==
    /\ cb_last = [event |-> "failure", state |-> "half_open", successes |-> 1]
    /\ cb_state = "open"
    /\ cb_open_until = now + recovery_timeout

\* C18: all get_circuit calls for one name that have returned hold the same instance.
C18_OneInstancePerName ==
    \A g, h \in Getters :
        (gpc[g] = "done" /\ gpc[h] = "done") => gret[g] = gret[h]

\* the windows in chronological order
FifoChunks == IF lifo THEN Reverse(chunks) ELSE chunks

\* C19: for start < end the windows run_backfill builds are consecutive and
\* non-overlapping, each non-empty and at most chunk_hours long, the earliest starts
\* at start_time and the latest ends at end_time; the LIFO list is the reverse of the
\* FIFO list.
C19_ChunksCoverRange ==
    (bpc \in {"loop", "done"} /\ start_time < end_time) =>
        /\ Len(chunks) >= 1
        /\ FifoChunks[1][1] = start_time
        /\ FifoChunks[Len(chunks)][2] = end_time
        /\ \A i \in 1..Len(chunks) :
              /\ FifoChunks[i][1] < FifoChunks[i][2]
              /\ FifoChunks[i][2] - FifoChunks[i][1] <= chunk_delta
        /\ \A i \in 1..(Len(chunks) - 1) : FifoChunks[i][2] = FifoChunks[i + 1][1]
        /\ lifo => chunks = Reverse(build_chunks(start_time, chunk_delta, end_time))
        /\ ~lifo => chunks = build_chunks(start_time, chunk_delta, end_time)

C19_Witness ==
    /\ bpc = "loop"
    /\ lifo
    /\ Len(chunks) >= 3
    /\ chunks[1][2] - chunks[1][1] < chunk_delta

\* C20: the windows attempted so far are the first windows of the list, each once
\* and in list order, and when run_backfill returns every window has been
\* attempted, whichever of them raised.
C20_EveryChunkAttempted ==
    /\ bpc \in {"loop", "done"} =>
          /\ Len(attempted) <= Len(chunks)
          /\ attempted = SubSeq(chunks, 1, Len(attempted))
          /\ chunk_num = Len(attempted) + 1
    /\ bpc = "done" => attempted = chunks

C20_Witness ==
    /\ bpc = "done"
    /\ Len(chunks) >= 2
    /\ 1 \in raised
    /\ attempted = chunks

\* C21: every fetch of a window other than the first of the list comes after the
\* one-second sleep of the iteration before it, whether that iteration raised or not.
C21_DelayBetweenChunks ==
    [][(bpc = "loop" /\ Len(attempted) >= 1 /\ Len(attempted') = Len(attempted) + 1)
           => slept]_vars

PipelineColumns ==
    {"status", "retry_count", "storage_path", "transcript_text", "transcript_segments",
     "qa_flags"}

\* C22: upsert_calls on an existing call writes none of the pipeline-owned columns, in
\* normal and in force_update mode, and leaves status, retry_count, storage_path and
\* qa_flags as they were, whatever the call's status. (In the ingest specification
\* every worker step moves a worker's position, so a step that moves none is an upsert.)
C22_UpsertKeepsPipelineFields ==
    [][/\ \A force_update \in BOOLEAN, call \in MappedCalls :
              update_data(force_update, call) \cap PipelineColumns = {}
       /\ \A c \in Rows :
              (hist'[c].upserted_in # hist[c].upserted_in \/ UNCHANGED <<vaultVars, factoryVars, judgeVars>>)
                  => /\ status'[c] = status[c]
                     /\ retry_count'[c] = retry_count[c]
                     /\ storage_path'[c] = storage_path[c]
                     /\ qa_flags'[c] = qa_flags[c]]_vars

C22_Witness ==
    \E c \in Rows :
        /\ hist[c].upserted_in = "processing"
        /\ status[c] = "processing"
        /\ retry_count[c] >= 1
        /\ storage_path[c] = "path"

\* the overlap lengths the claim speaks of: k words, 1 <= k <= max_overlap_words, that
\* end the previous text and begin the next one, compared case-insensitively
JunctionOverlaps(prev, next) ==
    {k \in 1..MaxOverlapWords :
        /\ k <= Len(prev) /\ k <= Len(next)
        /\ \A i \in 1..k : lower(prev[Len(prev) - k + i]) = lower(next[i])}

\* C24: merging two chunk transcripts appends to the first the second without its
\* longest prefix of k <= max_overlap_words words that repeats the last k words of the
\* first (case-insensitively), and appends the second unchanged when there is no such k.
C24_LongestOverlapRemoved ==
    (mpc = "done" /\ Len(transcripts) = 2 /\ transcripts[1] # <<>>) =>
        LET prev == transcripts[1]
            next == transcripts[2]
            ks == JunctionOverlaps(prev, next)
        IN IF ks = {} THEN merged_text = prev \o next
           ELSE \E k \in ks :
                   /\ \A j \in ks : j <= k
                   /\ merged_text = prev \o SubSeq(next, k + 1, Len(next))

C24_Witness ==
    /\ mpc = "done"
    /\ transcripts = << <<"a", "b">>, <<"A", "b", "b">> >>
    /\ merged_text = <<"a", "b", "b">>

\* a chunk result as a diarizer delivers it: every segment has positive duration and
\* the segments are ordered by start time
WellFormedSegments(segs) ==
    /\ \A i \in 1..Len(segs) : segs[i].end > segs[i].start
    /\ \A i \in 1..(Len(segs) - 1) : segs[i].start <= segs[i + 1].start

\* C23 (as stated): merging a single chunk returns that chunk's words, resp. exactly
\* that chunk's segments in the same order with the same times.
C23_SingleChunkUnchanged ==
    /\ (mpc = "done" /\ Len(transcripts) = 1) => merged_text = transcripts[1]
    /\ (dpc = "done" /\ Len(all_segments) = 1) => merged_segments = all_segments[1]

\* C23 (amended): the same, for a chunk whose segments all have positive duration and
\* are ordered by start time.
C23_SingleChunkUnchangedWellFormed ==
    /\ (mpc = "done" /\ Len(transcripts) = 1) => merged_text = transcripts[1]
    /\ (dpc = "done" /\ Len(all_segments) = 1 /\ WellFormedSegments(all_segments[1]))
           => merged_segments = all_segments[1]

C23_Witness ==
    /\ dpc = "done"
    /\ Len(all_segments) = 1
    /\ Len(all_segments[1]) >= 2
    /\ WellFormedSegments(all_segments[1])
    /\ \E i \in 1..(Len(all_segments[1]) - 1) :
           all_segments[1][i].start = all_segments[1][i + 1].start
    /\ merged_segments = all_segments[1]

\* C25: the merged segment list has strictly increasing start times and no segment
\* ends after the next one starts.
C25_MergedSegmentsDisjoint ==
    dpc = "done" =>
        \A i \in 1..(Len(merged_segments) - 1) :
            /\ merged_segments[i].start < merged_segments[i + 1].start
            /\ merged_segments[i].end <= merged_segments[i + 1].start

\* the words of all text fields of a segment list, read in segment order
RECURSIVE AlignedWords(_)
AlignedWords(segs) ==
    IF segs = <<>> THEN <<>>
    ELSE (IF "text" \in DOMAIN Head(segs) THEN Head(segs).text ELSE <<>>)
             \o AlignedWords(Tail(segs))

\* the words of a transcript: its tokens that are not punctuation only
TranscriptWords == SelectSeq(transcript_text, LAMBDA w : w \in {"a", "b"})

RECURSIVE PositiveTotal(_)
PositiveTotal(segs) ==
    IF segs = <<>> THEN 0
    ELSE (IF Head(segs).end > Head(segs).start THEN Head(segs).end - Head(segs).start ELSE 0)
             + PositiveTotal(Tail(segs))

\* C26: for a transcript with at least one word and a non-empty segment list of
\* positive total duration, the words of the aligned segments' text fields, read in
\* segment order, are exactly the transcript's words in their original order.
C26_AlignmentKeepsWords ==
    (/\ apc = "done"
     /\ TranscriptWords # <<>>
     /\ diarization_segments # <<>>
     /\ PositiveTotal(diarization_segments) > 0)
        => AlignedWords(aligned_segments) = TranscriptWords

\* one word behind a punctuation token, two turns of equal length by different
\* speakers: the rounding tie gives the first turn no word and the remaining word is
\* added to the last segment
C26_Witness ==
    /\ apc = "done"
    /\ transcript_text = <<"-", "a">>
    /\ Len(diarization_segments) = 2
    /\ diarization_segments[1].speaker # diarization_segments[2].speaker
    /\ \A i \in 1..2 : diarization_segments[i].end > diarization_segments[i].start
    /\ Len(aligned_segments) = 2
    /\ aligned_segments[1].text = <<>>
    /\ aligned_segments[2].text = <<"a">>

\* C27: once a worker has received the shutdown signal it accepts no further batch,
\* it does not exit with a claimed call still unprocessed, and its main loop ends.
C27_ShutdownStopsNewBatches ==
    /\ [](\A lane \in DOMAIN lpc : late_batches[lane] = 0)
    /\ [](\A lane \in DOMAIN lpc : lpc[lane] = "exited" => in_flight[lane] = 0)
    /\ \A lane \in Lanes : (shutdown_requested[lane] ~> lpc[lane] = "exited")

\* C28: a vault download that fails with HTTP 401, 403, 404 or 410 sets the call to
\* 'failed' with the error recorded, and leaves storage_path null.
C28_PermanentErrorFailsCall ==
    [][\A w \in VaultWorkers, c \in Rows, outcome \in {"http_401", "http_403", "http_404", "http_410"} :
           process_single_call(w, c, outcome) =>
               /\ status'[c] = "failed"
               /\ processing_error'[c] = "vault"
               /\ storage_path'[c] = "null"]_vars

LaneEdges ==
    {<<"pending", "downloaded">>, <<"pending", "failed">>,
     <<"downloaded", "processing">>, <<"processing", "transcribed">>,
     <<"processing", "downloaded">>, <<"processing", "failed">>,
     <<"transcribed", "flagged">>, <<"transcribed", "safe">>, <<"transcribed", "failed">>}

\* C30: every change of a call's status follows one of the lanes' edges; no lane
\* writes a status to a call whose current status is not that lane's source state.
C30_StatusFollowsLaneEdges ==
    [][\A c \in Rows : status'[c] # status[c] => <<status[c], status'[c]>> \in LaneEdges]_vars

\* C31: a call's retry_count equals the number of successful lock_call claims made on
\* it, after any interleaving of factory workers.
C31_RetryCountCountsClaims ==
    \A c \in Rows : retry_count[c] = hist[c].claims

\* C32: a Closed breaker opens only when the failure just recorded is the
\* failure_threshold-th in a row, with no success recorded between them.
C32_OpensOnConsecutiveFailures ==
    [][(cb_state = "closed" /\ cb_state' = "open") => cb_run' >= failure_threshold]_vars

\* the calls admitted while the breaker was Half-Open that have not finished yet
HalfOpenProbes ==
    {t \in Callers : tpc[t] \in {"admitted", "running"} /\ admitted_in[t] = "half_open"}

\* C38: at most one call admitted in Half-Open is in flight at any time.
C38_OneProbeInHalfOpen ==
    Cardinality(HalfOpenProbes) <= 1

\* C39: while the breaker is Half-Open, the success of a call that was not admitted in
\* Half-Open neither raises the success counter nor closes the breaker.
C39_OnlyProbeSuccessesCount ==
    [][\A t \in Callers :
          (/\ tpc[t] = "running" /\ tpc'[t] = "idle"
           /\ cb_last'.event = "success"
           /\ cb_state = "half_open"
           /\ admitted_in[t] # "half_open")
              => (cb_successes' = cb_successes /\ cb_state' = "half_open")]_vars

\* C33: release_call after lock_call gives the call back as 'downloaded' with the
\* retry_count it had before the lock and returns True; on a call whose status is not
\* 'processing' it changes nothing and returns False.
C33_ReleaseRestoresRetryCount ==
    [][\A w \in FactoryWorkers :
          (fpc[w] = "locked" /\ fpc'[w] \in {"released", "not_released"}) =>
              LET c == fcall[w].id
              IN IF status[c] = "processing"
                 THEN /\ fpc'[w] = "released"
                      /\ status'[c] = "downloaded"
                      /\ retry_count'[c] = fcall[w].retry_count
                 ELSE /\ fpc'[w] = "not_released"
                      /\ row' = row]_vars

\* C36: a factory worker changes a call's status, retry_count or processing_error only
\* in its lock_call or while it holds the locked record.
C36_WritesOnlyUnderOwnLock ==
    [][\A w \in FactoryWorkers :
          (fpc[w] = "fetched" /\ fpc'[w] = "poll") =>
              /\ status' = status
              /\ retry_count' = retry_count
              /\ processing_error' = processing_error]_vars

\* the number of words chunk i loses at its boundary with chunk i - 1: the longest
\* junction overlap with the trailing words of that previous chunk
BoundaryOverlap(chunk_texts, i) ==
    LET ks == JunctionOverlaps(chunk_texts[i - 1], chunk_texts[i])
    IN IF ks = {} THEN 0 ELSE CHOOSE k \in ks : \A j \in ks : j <= k

\* C34: when three or more non-empty chunk transcripts are merged, every chunk after
\* the first is appended without the words that repeat the end of the chunk before it.
C34_EveryBoundaryDeduplicated ==
    (mpc = "done" /\ Len(transcripts) >= 3 /\ \A i \in DOMAIN transcripts : transcripts[i] # <<>>) =>
        merged_text =
            JoinWords([i \in DOMAIN transcripts |->
                          IF i = 1 THEN transcripts[1]
                          ELSE SubSeq(transcripts[i], BoundaryOverlap(transcripts, i) + 1,
                                      Len(transcripts[i]))])

\* C35: the vault lane's retry budget is finite: a pending call with a recording URL
\* does not stay pending forever, it eventually becomes 'downloaded' or, after the
\* last allowed attempt has failed, 'failed'.
C35_VaultRetriesAreBounded ==
    \A c \in 1..NumVaultCalls :
        [](VaultSelector(c) => <>(status[c] \in {"downloaded", "failed"}))

\* C37: while no judge worker crashes, every 'transcribed' call that carries the lock
\* marker is in the locked list or the running batch of some judge worker.
C37_LockedCallsAreProcessed ==
    \A c \in Rows :
        (status[c] = "transcribed" /\ qa_flags[c] = "locked") => JudgeHolders(c) # {}

\* C40: for every start, end and chunk_hours the window-building loop of run_backfill
\* is left after finitely many iterations.
C40_WindowLoopTerminates ==
    <>(bpc = "loop")

====
